---- MODULE Spec2Model ----
(***************************************************************************)
(* express-response-rest: the HttpResponse formatter (send and its named   *)
(* helper presets) and the two responseMiddleware definitions that attach  *)
(* the helpers to an Express response object.                              *)
(***************************************************************************)
EXTENDS Integers, Sequences, FiniteSets, TLC

VARIABLES sink, httpResponse, attached, nextCalls, clock, lastCall, firstCall

vars == <<sink, httpResponse, attached, nextCalls, clock, lastCall, firstCall>>

\* ------------------------------------------------------------------ bounds
NumRequests == 2
MaxClock == 1

Requests == 1..NumRequests

\* ------------------------------------------------------- JavaScript values
\* A value is a tagged tuple, so that values of different types compare
\* unequal instead of being incomparable.
Undefined == <<"undefined">>
Null == <<"null">>
Num(n) == <<"number", n>>
Str(s) == <<"string", s>>
Bool(b) == <<"boolean", b>>
Obj(name) == <<"object", name>>
\* A Record<string, string>: its entries in insertion order.
Rec(entries) == <<"record", entries>>
\* An options bag: a function from its own keys to their values.
Bag(f) == <<"options", f>>

EmptyBag == [k \in {} |-> Undefined]

\* Property read o.k: undefined when o has no own key k.
Get(o, k) == IF k \in DOMAIN o THEN o[k] ELSE Undefined

\* A merge that skips the keys whose value is undefined, as a defaults
\* helper does.
SpreadDefined(a, b) ==
    [k \in (DOMAIN a) \cup (DOMAIN b) |->
        IF k \in DOMAIN b /\ (b[k] # Undefined \/ k \notin DOMAIN a) THEN b[k] ELSE a[k]]

\* Object spread { ...a, ...b }: b's own keys win, also with value undefined.
Spread(a, b) == [k \in (DOMAIN a) \cup (DOMAIN b) |-> IF k \in DOMAIN b THEN b[k] ELSE a[k]]

\* A default taken with `||`: every falsy value gives way to the default.
DefaultOr(v, d) == IF v \in {Undefined, Null, Num(0), Str(""), Bool(FALSE)} THEN d ELSE v

\* Destructuring / parameter default `x = d`: d replaces undefined only.
Default(v, d) == IF v = Undefined THEN d ELSE v

\* ToBoolean, as `if (headers)` applies it.
Truthy(v) == v \notin {Undefined, Null, Num(0), Str(""), Bool(FALSE)}

\* Date.prototype.toISOString for the instants of the model's clock
\* (milliseconds since the epoch, below one second).
toISOString(t) ==
    "1970-01-01T00:00:00."
        \o (IF t < 10 THEN "00" ELSE IF t < 100 THEN "0" ELSE "")
        \o ToString(t) \o "Z"

\* ------------------------------------------------------------- the sink
\* The Express response object as HttpResponse uses it: setHeader, status,
\* json and send.  Each operation takes the sinks and returns the sinks
\* after it and whether it threw.
FreshSink ==
    [headers |-> [k \in {} |-> ""], statusCode |-> Num(200),
     headersSent |-> FALSE, body |-> <<"none">>]

ContentTypeJson == "application/json; charset=utf-8"
ContentTypeHtml == "text/html; charset=utf-8"

WithContentType(h, t) == IF "Content-Type" \in DOMAIN h THEN h ELSE ("Content-Type" :> t) @@ h

\* res.setHeader(key, value): ERR_HTTP_HEADERS_SENT once the head is out.
setHeader(s, r, key, value) ==
    IF s[r].headersSent
    THEN [sink |-> s, threw |-> TRUE]
    ELSE [sink |-> [s EXCEPT ![r].headers = (key :> value) @@ @], threw |-> FALSE]

\* res.status(code): sets res.statusCode and returns res.
status(s, r, code) ==
    [sink |-> [s EXCEPT ![r].statusCode = code], threw |-> FALSE]

\* res.json(body): sets Content-Type when missing and ends the response.
json(s, r, body) ==
    IF s[r].headersSent
    THEN [sink |-> s, threw |-> TRUE]
    ELSE [sink |-> [s EXCEPT ![r].headers = WithContentType(@, ContentTypeJson),
                             ![r].headersSent = TRUE,
                             ![r].body = <<"json", body>>],
          threw |-> FALSE]

\* res.send() without a body: ends the response with an empty body.
sendEmpty(s, r) ==
    IF s[r].headersSent
    THEN [sink |-> s, threw |-> TRUE]
    ELSE [sink |-> [s EXCEPT ![r].headersSent = TRUE, ![r].body = <<"empty">>],
          threw |-> FALSE]

ExpressVersions == {"express4", "express5"}

\* Express' own res.send called as res.send(first, second).  Express 5 takes
\* the first argument as the body and ignores the second; Express 4 reads
\* (status, body), stores the first argument as the status code and throws
\* when the head is written with it.
nativeSend(s, r, first, second, express) ==
    IF s[r].headersSent
    THEN [sink |-> s, threw |-> TRUE]
    ELSE IF express = "express5"
    THEN [sink |-> [s EXCEPT ![r].headers = WithContentType(@, ContentTypeHtml),
                             ![r].headersSent = TRUE,
                             ![r].body = <<"raw", first>>],
          threw |-> FALSE]
    ELSE [sink |-> [s EXCEPT ![r].statusCode = first,
                             ![r].headers = WithContentType(@, ContentTypeJson)],
          threw |-> TRUE]

\* One call on the sink, as a call's trace records it.
Event(op, r, args, threw) == [op |-> op, on |-> r, args |-> args, threw |-> threw]

\* The outcome of (part of) a helper call: the sinks after it, the sink
\* calls it made, whether it threw, and the envelopes it built.
Outcome(s, trace, threw, built) ==
    [sink |-> s, trace |-> trace, threw |-> threw, built |-> built]

\* ------------------------------------------------------- HttpResponse
\* new HttpResponse(res): the instance keeps the response it was given.
HttpResponse(res) == [res |-> res]

\* The receiver `this` of a method body: an HttpResponse instance, or the
\* response object itself when a method taken off the instance is called as
\* a property of the response.
Instance(fid) == <<"HttpResponse", fid>>
Response(r) == <<"Response", r>>

\* The context of a call: the sinks before it, the instant new Date()
\* reads, and the Express major the response object comes from.
Context(s, now, express) == [sink |-> s, now |-> now, express |-> express]

\* Parameter default `options = {}`.
Param(arg) == IF arg = Undefined THEN EmptyBag ELSE arg[2]

\* for (const [key, value] of Object.entries(headers)) this.res.setHeader(key, value)
RECURSIVE applyHeaders(_, _, _)
applyHeaders(s, r, entries) ==
    IF entries = <<>>
    THEN Outcome(s, <<>>, FALSE, <<>>)
    ELSE LET h == setHeader(s, r, entries[1][1], entries[1][2])
             ev == Event("setHeader", r, entries[1], h.threw)
         IN IF h.threw
            THEN Outcome(h.sink, <<ev>>, TRUE, <<>>)
            ELSE LET rest == applyHeaders(h.sink, r, Tail(entries))
                 IN Outcome(rest.sink, <<ev>> \o rest.trace, rest.threw, <<>>)

\* Envelope with `if (data)` in place of `if (data !== undefined)`.
EnvelopeTruthy(category, message, data, errors, meta, now) ==
    LET base == [status |-> category, message |-> message]
        withData == IF Truthy(data) THEN base @@ ("data" :> data) ELSE base
        withErrors == IF Truthy(errors) THEN withData @@ ("errors" :> errors) ELSE withData
        withMeta == IF Truthy(meta) THEN withErrors @@ ("meta" :> meta) ELSE withErrors
    IN withMeta @@ ("timestamp" :> Str(toISOString(now)))

\* Envelope with a fixed set of fields: what is missing is null.
EnvelopeFixedWidth(category, message, data, errors, meta, now) ==
    [status |-> category, message |-> message, data |-> Default(data, Null),
     errors |-> Default(errors, Null), meta |-> Default(meta, Null), code |-> Num(0),
     timestamp |-> Str(toISOString(now))]

\* Envelope stamped with an instant read once, when the module was loaded.
EnvelopeStaleTimestamp(category, message, data, errors, meta, now) ==
    LET base == [status |-> category, message |-> message]
        withData == IF data # Undefined THEN base @@ ("data" :> data) ELSE base
        withErrors == IF errors # Undefined THEN withData @@ ("errors" :> errors) ELSE withData
        withMeta == IF meta # Undefined THEN withErrors @@ ("meta" :> meta) ELSE withErrors
    IN withMeta @@ ("timestamp" :> Str(toISOString(0)))

\* Envelope leaving out what is null as well as what is undefined
\* (`!= null`).
EnvelopeNotNull(category, message, data, errors, meta, now) ==
    LET base == [status |-> category, message |-> message]
        withData == IF data \notin {Undefined, Null} THEN base @@ ("data" :> data) ELSE base
        withErrors == IF errors \notin {Undefined, Null} THEN withData @@ ("errors" :> errors)
                                                         ELSE withData
        withMeta == IF meta \notin {Undefined, Null} THEN withErrors @@ ("meta" :> meta)
                                                     ELSE withErrors
    IN withMeta @@ ("timestamp" :> Str(toISOString(now)))

\* The response object send builds: status and message, then data, errors
\* and meta when not undefined, then the timestamp.
Envelope(category, message, data, errors, meta, now) ==
    LET base == [status |-> category, message |-> message]
        withData == IF data # Undefined THEN base @@ ("data" :> data) ELSE base
        withErrors == IF errors # Undefined THEN withData @@ ("errors" :> errors) ELSE withData
        withMeta == IF meta # Undefined THEN withErrors @@ ("meta" :> meta) ELSE withErrors
    IN withMeta @@ ("timestamp" :> Str(toISOString(now)))

\* The write wrapped in a try/catch that swallows the sink's error.
writeJsonCatches(s, r, statusCode, response) ==
    LET st == status(s, r, statusCode)
        js == json(st.sink, r, response)
    IN Outcome(js.sink,
               <<Event("status", r, <<statusCode>>, FALSE), Event("json", r, <<response>>, js.threw)>>,
               FALSE, <<response>>)

\* this.res.status(statusCode).json(response)
writeJson(s, r, statusCode, response) ==
    LET st == status(s, r, statusCode)
        js == json(st.sink, r, response)
    IN Outcome(js.sink,
               <<Event("status", r, <<statusCode>>, FALSE), Event("json", r, <<response>>, js.threw)>>,
               js.threw, <<response>>)

\* send writing the body first and setting the headers after it.
sendBodyFirst(this, category, arg, c) ==
    LET options == Param(arg)
        message == Default(Get(options, "message"),
                           IF category = Str("success") THEN Str("Success") ELSE Str("Error"))
        headers == Get(options, "headers")
        statusCode == Default(Get(options, "statusCode"),
                              IF category = Str("success") THEN Num(200) ELSE Num(500))
        r == httpResponse[this[2]].res
        response == Envelope(category, message, Get(options, "data"), Get(options, "errors"),
                             Get(options, "meta"), c.now)
        w == writeJson(c.sink, r, statusCode, response)
        hs == IF Truthy(headers) THEN applyHeaders(w.sink, r, headers[2])
                                 ELSE Outcome(w.sink, <<>>, FALSE, <<>>)
    IN Outcome(hs.sink, w.trace \o hs.trace, w.threw \/ hs.threw, w.built)

\* HttpResponse.send(status, options = {}) on an HttpResponse instance.
send(this, category, arg, c) ==
    LET options == Param(arg)
        message == Default(Get(options, "message"),
                           IF category = Str("success") THEN Str("Success") ELSE Str("Error"))
        data == Get(options, "data")
        meta == Get(options, "meta")
        errors == Get(options, "errors")
        headers == Get(options, "headers")
        statusCode == Default(Get(options, "statusCode"),
                              IF category = Str("success") THEN Num(200) ELSE Num(500))
        r == httpResponse[this[2]].res
        hs == IF Truthy(headers) THEN applyHeaders(c.sink, r, headers[2])
                                 ELSE Outcome(c.sink, <<>>, FALSE, <<>>)
    IN IF hs.threw
       THEN hs
       ELSE LET response == Envelope(category, message, data, errors, meta, c.now)
                w == writeJson(hs.sink, r, statusCode, response)
            IN Outcome(w.sink, hs.trace \o w.trace, w.threw, w.built)

\* this.send(status, options) inside a helper body.  On an HttpResponse
\* instance this is the method above; on a response object it is Express'
\* own res.send.
thisSend(this, category, options, c) ==
    IF this[1] = "HttpResponse"
    THEN send(this, category, Bag(options), c)
    ELSE LET n == nativeSend(c.sink, this[2], category, Bag(options), c.express)
         IN Outcome(n.sink, <<Event("send", this[2], <<category, Bag(options)>>, n.threw)>>,
                    n.threw, <<>>)

\* success over a defaults object shared by all calls, into which the call
\* before has merged its options.
successSticky(this, arg, c) ==
    thisSend(this, Str("success"),
             Spread(Spread([statusCode |-> Num(200)], Param(lastCall.arg)), Param(arg)), c)

\* The named helpers.  this.success and this.error inside a helper body
\* resolve to the methods below for either receiver: on the response object
\* they are the properties the middleware assigned from the same methods.
success(this, arg, c) ==
    thisSend(this, Str("success"), Spread([statusCode |-> Num(200)], Param(arg)), c)

\* created with the spread reversed: { ...options, statusCode: 201, message }.
createdPresetWins(this, arg, c) ==
    success(this, Bag(Spread(Param(arg), [statusCode |-> Num(201), message |-> Str("Resource created")])), c)

created(this, arg, c) ==
    success(this, Bag(Spread([statusCode |-> Num(201), message |-> Str("Resource created")], Param(arg))), c)

accepted(this, arg, c) ==
    success(this, Bag(Spread([statusCode |-> Num(202), message |-> Str("Accepted")], Param(arg))), c)

\* noContent written as one more preset over send.
noContentViaSend(this, c) ==
    thisSend(this, Str("success"), [statusCode |-> Num(204)], c)

\* this.res.status(204).send(); a response object has no res property, so
\* with the response as receiver reading this.res.status throws.
noContent(this, c) ==
    IF this[1] = "HttpResponse"
    THEN LET r == httpResponse[this[2]].res
             st == status(c.sink, r, Num(204))
             se == sendEmpty(st.sink, r)
         IN Outcome(se.sink,
                    <<Event("status", r, <<Num(204)>>, FALSE), Event("send", r, <<>>, se.threw)>>,
                    se.threw, <<>>)
    ELSE Outcome(c.sink, <<>>, TRUE, <<>>)

\* error sending twice.
errorSendsTwice(this, arg, c) ==
    LET options == Spread([statusCode |-> Num(500)], Param(arg))
        a == thisSend(this, Str("error"), options, c)
        b == thisSend(this, Str("error"), options, [c EXCEPT !.sink = a.sink])
    IN Outcome(b.sink, a.trace \o b.trace, a.threw \/ b.threw, a.built \o b.built)

error(this, arg, c) ==
    thisSend(this, Str("error"), Spread([statusCode |-> Num(500)], Param(arg)), c)

\* serverError without its own message, merged with the generic error.
serverErrorNoPreset(this, arg, c) ==
    error(this, arg, c)

serverError(this, arg, c) ==
    error(this, Bag(Spread([message |-> Str("Internal Server Error")], Param(arg))), c)

badRequest(this, arg, c) ==
    error(this, Bag(Spread([statusCode |-> Num(400), message |-> Str("Bad Request")], Param(arg))), c)

unauthorized(this, arg, c) ==
    error(this, Bag(Spread([statusCode |-> Num(401), message |-> Str("Unauthorized")], Param(arg))), c)

forbidden(this, arg, c) ==
    error(this, Bag(Spread([statusCode |-> Num(403), message |-> Str("Forbidden")], Param(arg))), c)

notFound(this, arg, c) ==
    error(this, Bag(Spread([statusCode |-> Num(404), message |-> Str("Not Found")], Param(arg))), c)

notAcceptable(this, arg, c) ==
    error(this, Bag(Spread([statusCode |-> Num(406), message |-> Str("Not Acceptable")], Param(arg))), c)

conflict(this, arg, c) ==
    error(this, Bag(Spread([statusCode |-> Num(409), message |-> Str("Conflict")], Param(arg))), c)

gone(this, arg, c) ==
    error(this, Bag(Spread([statusCode |-> Num(410), message |-> Str("Gone")], Param(arg))), c)

unsupportedMediaType(this, arg, c) ==
    error(this, Bag(Spread([statusCode |-> Num(415), message |-> Str("Unsupported Media Type")], Param(arg))), c)

unprocessableEntity(this, arg, c) ==
    error(this, Bag(Spread([statusCode |-> Num(422), message |-> Str("Unprocessable Entity")], Param(arg))), c)

tooManyRequests(this, arg, c) ==
    error(this, Bag(Spread([statusCode |-> Num(429), message |-> Str("Too Many Requests")], Param(arg))), c)

notImplemented(this, arg, c) ==
    error(this, Bag(Spread([statusCode |-> Num(501), message |-> Str("Not Implemented")], Param(arg))), c)

serviceUnavailable(this, arg, c) ==
    error(this, Bag(Spread([statusCode |-> Num(503), message |-> Str("Service Unavailable")], Param(arg))), c)

SuccessHelpers == {"success", "created", "accepted"}
ErrorHelpers ==
    {"badRequest", "unauthorized", "forbidden", "notFound", "notAcceptable", "conflict",
     "gone", "unsupportedMediaType", "unprocessableEntity", "tooManyRequests", "error",
     "serverError", "notImplemented", "serviceUnavailable"}
EnvelopeHelpers == SuccessHelpers \cup ErrorHelpers
Helpers == EnvelopeHelpers \cup {"noContent"}

\* The method `name` of the class run with receiver `this`.
Invoke(name, this, arg, c) ==
    CASE name = "noContent" -> noContent(this, c)
      [] name = "success" -> success(this, arg, c)
      [] name = "created" -> created(this, arg, c)
      [] name = "accepted" -> accepted(this, arg, c)
      [] name = "badRequest" -> badRequest(this, arg, c)
      [] name = "unauthorized" -> unauthorized(this, arg, c)
      [] name = "forbidden" -> forbidden(this, arg, c)
      [] name = "notFound" -> notFound(this, arg, c)
      [] name = "notAcceptable" -> notAcceptable(this, arg, c)
      [] name = "conflict" -> conflict(this, arg, c)
      [] name = "gone" -> gone(this, arg, c)
      [] name = "unsupportedMediaType" -> unsupportedMediaType(this, arg, c)
      [] name = "unprocessableEntity" -> unprocessableEntity(this, arg, c)
      [] name = "tooManyRequests" -> tooManyRequests(this, arg, c)
      [] name = "error" -> error(this, arg, c)
      [] name = "serverError" -> serverError(this, arg, c)
      [] name = "notImplemented" -> notImplemented(this, arg, c)
      [] name = "serviceUnavailable" -> serviceUnavailable(this, arg, c)

\* ------------------------------------------------------ response object
\* The members Express itself puts on a response object.
NativeMembers == {"send", "status", "json", "setHeader"}
Native == [n \in NativeMembers |-> [kind |-> "native", self |-> <<0, "express">>, method |-> n]]

\* res.X = (options) => httpResponse.X(options)
Closure(fid, n) == [kind |-> "closure", self |-> fid, method |-> n]
\* res.X = httpResponse.X: the method of the class itself, the same function
\* whatever instance it is read from.
Method(n) == [kind |-> "method", self |-> <<0, "prototype">>, method |-> n]

HelpersOn(r) == {n \in DOMAIN attached[r] : attached[r][n].kind # "native"}

\* ------------------------------------------------------------------ state
NoCall ==
    [via |-> "none", on |-> <<"none">>, res |-> 0, name |-> "", category |-> Undefined,
     arg |-> Undefined, before |-> [r \in Requests |-> FreshSink], now |-> 0,
     threw |-> FALSE, trace |-> <<>>, built |-> <<>>, argAfter |-> Undefined]

Init ==
    /\ sink = [r \in Requests |-> FreshSink]
    /\ httpResponse = [f \in {} |-> HttpResponse(0)]
    /\ attached = [r \in Requests |-> Native]
    /\ nextCalls = [r \in Requests |-> <<>>]
    /\ clock = 0
    /\ lastCall = NoCall
    /\ firstCall = [r \in Requests |-> NoCall]

\* ---------------------------------------------------------------- actions
\* The clock new Date() reads advances.
Tick ==
    /\ clock < MaxClock
    /\ clock' = clock + 1
    /\ UNCHANGED <<sink, httpResponse, attached, nextCalls, lastCall, firstCall>>

\* responseMiddleware calling next() first, and again after attaching.
responseMiddlewareNextFirst(r) ==
    LET fid == <<r, "middleware">>
        after == [n \in Helpers |-> Closure(fid, n)] @@ attached[r]
    IN /\ HelpersOn(r) = {}
       /\ httpResponse' = (fid :> HttpResponse(r)) @@ httpResponse
       /\ attached' = [attached EXCEPT ![r] = after]
       /\ nextCalls' = [nextCalls EXCEPT ![r] =
                           @ \o <<[args |-> <<>>, attached |-> DOMAIN attached[r]],
                                  [args |-> <<>>, attached |-> DOMAIN after]>>]
       /\ UNCHANGED <<sink, clock, lastCall, firstCall>>

\* responseMiddleware attaching send of the instance as well.
responseMiddlewareWithSend(r) ==
    LET fid == <<r, "middleware">>
        after == [n \in Helpers \cup {"send"} |-> Closure(fid, n)] @@ attached[r]
    IN /\ HelpersOn(r) = {}
       /\ httpResponse' = (fid :> HttpResponse(r)) @@ httpResponse
       /\ attached' = [attached EXCEPT ![r] = after]
       /\ nextCalls' = [nextCalls EXCEPT ![r] = Append(@, [args |-> <<>>, attached |-> DOMAIN after])]
       /\ UNCHANGED <<sink, clock, lastCall, firstCall>>

\* responseMiddleware of middleware.ts, run by the framework once for the
\* request of response r: one HttpResponse over res, one closure per helper,
\* then next().
responseMiddleware(r) ==
    LET fid == <<r, "middleware">>
        after == [n \in Helpers |-> Closure(fid, n)] @@ attached[r]
    IN /\ HelpersOn(r) = {}
       /\ httpResponse' = (fid :> HttpResponse(r)) @@ httpResponse
       /\ attached' = [attached EXCEPT ![r] = after]
       /\ nextCalls' = [nextCalls EXCEPT ![r] = Append(@, [args |-> <<>>, attached |-> DOMAIN after])]
       /\ UNCHANGED <<sink, clock, lastCall, firstCall>>

\* responseMiddleware of HttpResponse.ts: the same, but each property is
\* assigned the method taken off the instance.
responseMiddlewareMethods(r) ==
    LET fid == <<r, "middleware">>
        after == [n \in Helpers |-> Method(n)] @@ attached[r]
    IN /\ HelpersOn(r) = {}
       /\ httpResponse' = (fid :> HttpResponse(r)) @@ httpResponse
       /\ attached' = [attached EXCEPT ![r] = after]
       /\ nextCalls' = [nextCalls EXCEPT ![r] = Append(@, [args |-> <<>>, attached |-> DOMAIN after])]
       /\ UNCHANGED <<sink, clock, lastCall, firstCall>>

\* Handler code constructs its own instance: new HttpResponse(res).
NewHttpResponse(r) ==
    LET fid == <<r, "handler">>
    IN /\ fid \notin DOMAIN httpResponse
       /\ httpResponse' = (fid :> HttpResponse(r)) @@ httpResponse
       /\ UNCHANGED <<sink, attached, nextCalls, clock, lastCall, firstCall>>

\* A helper that wrote its presets into the options object it was given.
ArgAfterAssigned(name, arg) ==
    IF arg = Undefined
    THEN arg
    ELSE Bag(Spread([statusCode |-> Num(201), message |-> Str("Resource created")], Param(arg)))

\* The caller's options object once the method `name` has returned: no
\* method assigns to options or to a property of it; the spreads copy it
\* into a new object and the destructuring of send only reads it.
ArgAfter(name, arg) == arg

\* The record of a call and its outcome.
Called(via, on, r, name, category, arg, out) ==
    [via |-> via, on |-> on, res |-> r, name |-> name, category |-> category, arg |-> arg,
     before |-> sink, now |-> clock, threw |-> out.threw, trace |-> out.trace,
     built |-> out.built, argAfter |-> ArgAfter(name, arg)]

\* The first call made on response r stays on record: its receiver, its
\* inputs, the sink it found and the sink it left.
Recorded(r, call, out) ==
    IF firstCall[r] = NoCall
    THEN [firstCall EXCEPT ![r] = [on |-> call.on, name |-> call.name, category |-> call.category,
                                   arg |-> call.arg, now |-> call.now, found |-> call.before[r],
                                   threw |-> call.threw, left |-> out.sink[r]]]
    ELSE firstCall

\* Handler code calls res.name(arg), a helper the middleware attached.
CallAttached(r, name, arg, express) ==
    /\ name \in HelpersOn(r)
    /\ LET b == attached[r][name]
           this == IF b.kind = "closure" THEN Instance(b.self) ELSE Response(r)
           out == Invoke(b.method, this, arg, Context(sink, clock, express))
       IN /\ sink' = out.sink
          /\ lastCall' = Called("res", this, r, name, Undefined, arg, out)
          /\ firstCall' = Recorded(r, Called("res", this, r, name, Undefined, arg, out), out)
    /\ UNCHANGED <<httpResponse, attached, nextCalls, clock>>

\* Handler code calls the helper `name` of the instance it constructed.
CallMethod(r, name, arg) ==
    LET fid == <<r, "handler">>
    IN /\ fid \in DOMAIN httpResponse
       /\ name \in Helpers
       /\ LET out == Invoke(name, Instance(fid), arg, Context(sink, clock, "express5"))
          IN /\ sink' = out.sink
             /\ lastCall' = Called("instance", Instance(fid), r, name, Undefined, arg, out)
             /\ firstCall' = Recorded(r, Called("instance", Instance(fid), r, name, Undefined, arg, out), out)
       /\ UNCHANGED <<httpResponse, attached, nextCalls, clock>>

\* Handler code calls send(category, arg) of the instance it constructed.
CallSend(r, category, arg) ==
    LET fid == <<r, "handler">>
    IN /\ fid \in DOMAIN httpResponse
       /\ LET out == send(Instance(fid), category, arg, Context(sink, clock, "express5"))
          IN /\ sink' = out.sink
             /\ lastCall' = Called("instance", Instance(fid), r, "send", category, arg, out)
             /\ firstCall' = Recorded(r, Called("instance", Instance(fid), r, "send", category, arg, out), out)
       /\ UNCHANGED <<httpResponse, attached, nextCalls, clock>>

\* ----------------------------------------------------------------- inputs
Categories == {Str("success"), Str("error")}

MessageValues == {Undefined, Str(""), Str("Custom")}
StatusCodeValues == {Undefined, Num(404), Num(418)}
PayloadValues == {Undefined, Null, Num(0), Str(""), Bool(FALSE), Obj("{}"), Obj("{id:1}")}
HeaderValues ==
    {Undefined, Null, Rec(<<>>), Rec(<< <<"X-Custom-Header", "CustomValue">> >>),
     Rec(<< <<"X-A", "1">>, <<"X-B", "2">> >>)}

ValuesOf(k) ==
    CASE k = "message" -> MessageValues
      [] k = "statusCode" -> StatusCodeValues
      [] k = "headers" -> HeaderValues
      [] OTHER -> PayloadValues

OptionKeys == {"message", "data", "meta", "errors", "headers", "statusCode"}

\* Bags with one key, for every key and value, and some with several keys.
SingleKeyBags == UNION {{[x \in {k} |-> v] : v \in ValuesOf(k)} : k \in OptionKeys}

FullBag ==
    [message |-> Str("Custom"), statusCode |-> Num(418), data |-> Obj("{id:1}"),
     meta |-> Obj("{}"), errors |-> Null,
     headers |-> Rec(<< <<"X-A", "1">>, <<"X-B", "2">> >>)]

SeveralKeyBags ==
    {FullBag,
     [message |-> Str("Custom"), data |-> Obj("{id:1}")],
     [message |-> Str("Custom"), errors |-> Obj("{id:1}")],
     [message |-> Undefined, statusCode |-> Undefined, data |-> Undefined,
      meta |-> Undefined, errors |-> Undefined, headers |-> Undefined]}

OptionBags == {EmptyBag} \cup SingleKeyBags \cup SeveralKeyBags

\* What a handler may pass: nothing, or an options bag.
Args == {Undefined} \cup {Bag(b) : b \in OptionBags}

\* The few helpers and arguments the handlers of interleaved requests use.
HandlerHelpers == {"success", "notFound", "noContent"}
HandlerArgs == {Undefined, Bag(FullBag)}

\* ---------------------------------------------------------- specifications
\* Several requests in flight, their middleware runs and their handlers'
\* answers interleaved in any order; each handler answers its request once.
Next ==
    \/ \E r \in Requests : responseMiddleware(r)
    \/ \E r \in Requests : responseMiddlewareMethods(r)
    \/ \E r \in Requests, name \in HandlerHelpers, arg \in HandlerArgs, e \in ExpressVersions :
          sink[r] = FreshSink /\ CallAttached(r, name, arg, e)

Spec == Init /\ [][Next]_vars

\* One request whose handler answers once, with any helper and any options.
NextOptions ==
    \/ Tick
    \/ responseMiddleware(1)
    \/ responseMiddlewareMethods(1)
    \/ NewHttpResponse(1)
    \/ /\ lastCall = NoCall
       /\ \E name \in Helpers, arg \in Args, e \in ExpressVersions : CallAttached(1, name, arg, e)
    \/ /\ lastCall = NoCall
       /\ \E name \in Helpers, arg \in Args : CallMethod(1, name, arg)
    \/ /\ lastCall = NoCall
       /\ \E category \in Categories, arg \in Args : CallSend(1, category, arg)

SpecOptions == Init /\ [][NextOptions]_vars

\* The helpers and arguments of handlers that may answer a request again.
SentHelpers == {"success", "notFound"}
SentArgs == {Undefined, Bag(FullBag), Bag([data |-> Obj("{id:1}")])}

\* Several requests in flight whose handlers call helpers any number of
\* times, also on a response that is already sent, and may pass the options
\* object of the call before again.
NextSent ==
    \/ \E r \in Requests : responseMiddleware(r)
    \/ \E r \in Requests, name \in SentHelpers, arg \in SentArgs :
          CallAttached(r, name, arg, "express5")
    \/ /\ lastCall # NoCall
       /\ \E r \in Requests, name \in SentHelpers :
             CallAttached(r, name, lastCall.argAfter, "express5")

SpecSent == Init /\ [][NextSent]_vars

\* Several requests in flight while the clock advances; each handler
\* answers its request once.
NextClock ==
    \/ Tick
    \/ \E r \in Requests : responseMiddleware(r)
    \/ \E r \in Requests, name \in SentHelpers, arg \in HandlerArgs :
          sink[r] = FreshSink /\ CallAttached(r, name, arg, "express5")

SpecClock == Init /\ [][NextClock]_vars

\* ------------------------------------------------------------ properties
\* The preset table of the specification (section 4.2) and of the README.
DocumentedPreset(name) ==
    CASE name = "success" -> [category |-> "success", statusCode |-> 200, message |-> "Success"]
      [] name = "created" -> [category |-> "success", statusCode |-> 201, message |-> "Resource created"]
      [] name = "accepted" -> [category |-> "success", statusCode |-> 202, message |-> "Accepted"]
      [] name = "badRequest" -> [category |-> "error", statusCode |-> 400, message |-> "Bad Request"]
      [] name = "unauthorized" -> [category |-> "error", statusCode |-> 401, message |-> "Unauthorized"]
      [] name = "forbidden" -> [category |-> "error", statusCode |-> 403, message |-> "Forbidden"]
      [] name = "notFound" -> [category |-> "error", statusCode |-> 404, message |-> "Not Found"]
      [] name = "notAcceptable" -> [category |-> "error", statusCode |-> 406, message |-> "Not Acceptable"]
      [] name = "conflict" -> [category |-> "error", statusCode |-> 409, message |-> "Conflict"]
      [] name = "gone" -> [category |-> "error", statusCode |-> 410, message |-> "Gone"]
      [] name = "unsupportedMediaType" ->
            [category |-> "error", statusCode |-> 415, message |-> "Unsupported Media Type"]
      [] name = "unprocessableEntity" ->
            [category |-> "error", statusCode |-> 422, message |-> "Unprocessable Entity"]
      [] name = "tooManyRequests" ->
            [category |-> "error", statusCode |-> 429, message |-> "Too Many Requests"]
      [] name = "error" -> [category |-> "error", statusCode |-> 500, message |-> "Error"]
      [] name = "serverError" ->
            [category |-> "error", statusCode |-> 500, message |-> "Internal Server Error"]
      [] name = "notImplemented" -> [category |-> "error", statusCode |-> 501, message |-> "Not Implemented"]
      [] name = "serviceUnavailable" ->
            [category |-> "error", statusCode |-> 503, message |-> "Service Unavailable"]

\* The last call ran a method of the class on an HttpResponse instance
\* (called on the instance, or through a closure of middleware.ts).
OnInstance == lastCall.via # "none" /\ lastCall.on[1] = "HttpResponse"
\* ... and the method was a named helper that answers with an envelope.
HelperCalled == OnInstance /\ lastCall.name \in EnvelopeHelpers
\* ... or was send, directly or through a helper.
SendReached == OnInstance /\ lastCall.name \in EnvelopeHelpers \cup {"send"}

\* The sink of the last call's response, the options it was given, and the
\* envelope on the sink.
LastSink == sink[lastCall.res]
LastOptions == Param(lastCall.arg)
JsonWritten(r) == sink[r].body[1] = "json"
EnvelopeOn(r) == sink[r].body[2]

\* The caller supplied key k: an own key whose value is not undefined.
Supplied(o, k) == k \in DOMAIN o /\ o[k] # Undefined

OptionalFields == {"data", "errors", "meta"}
EnvelopeFields == {"status", "message", "data", "errors", "meta", "timestamp"}

\* C1: a named helper other than noContent, called with no options, writes
\* an envelope with the helper's documented category and default message,
\* under the helper's documented default status code.
C1_NoOptionsDefaults ==
    (HelperCalled /\ LastOptions = EmptyBag) =>
        LET d == DocumentedPreset(lastCall.name)
        IN /\ ~lastCall.threw
           /\ JsonWritten(lastCall.res)
           /\ EnvelopeOn(lastCall.res)["status"] = Str(d.category)
           /\ EnvelopeOn(lastCall.res)["message"] = Str(d.message)
           /\ LastSink.statusCode = Num(d.statusCode)

C1_Witness ==
    /\ HelperCalled /\ lastCall.name = "serverError" /\ lastCall.arg = Undefined
    /\ JsonWritten(lastCall.res)
    /\ LastSink.statusCode = Num(500)

\* C2: whatever the options bag, a supplied message and statusCode are the
\* ones written, supplied data, meta, errors and headers reach the sink
\* unchanged, and the envelope's status is the helper's own category.
C2_CallerWins ==
    HelperCalled =>
        LET o == LastOptions
            env == EnvelopeOn(lastCall.res)
        IN /\ ~lastCall.threw
           /\ JsonWritten(lastCall.res)
           /\ env["status"] = Str(DocumentedPreset(lastCall.name).category)
           /\ Supplied(o, "message") => env["message"] = o["message"]
           /\ Supplied(o, "statusCode") => LastSink.statusCode = o["statusCode"]
           /\ \A k \in OptionalFields : Supplied(o, k) => k \in DOMAIN env /\ env[k] = o[k]
           /\ (Supplied(o, "headers") /\ o["headers"][1] = "record") =>
                 \A i \in DOMAIN o["headers"][2] :
                    LET h == o["headers"][2][i]
                    IN h[1] \in DOMAIN LastSink.headers /\ LastSink.headers[h[1]] = h[2]

C2_Witness ==
    /\ HelperCalled /\ lastCall.name = "created" /\ lastCall.arg = Bag(FullBag)
    /\ JsonWritten(lastCall.res)
    /\ LastSink.statusCode = Num(418)
    /\ EnvelopeOn(lastCall.res)["message"] = Str("Custom")
    /\ "X-B" \in DOMAIN LastSink.headers

\* C3: in every call that reaches send, each of data, errors and meta is in
\* the written envelope exactly when the caller supplied it, with the
\* supplied value; falsy values are included, and nothing stands in for a
\* field that was not supplied.
C3_OptionalFieldsIffSupplied ==
    SendReached =>
        LET o == LastOptions
            env == EnvelopeOn(lastCall.res)
        IN /\ JsonWritten(lastCall.res)
           /\ \A k \in OptionalFields :
                 /\ k \in DOMAIN env <=> Supplied(o, k)
                 /\ Supplied(o, k) => env[k] = o[k]

C3_Witness ==
    /\ SendReached /\ lastCall.arg \in {Bag([data |-> v]) : v \in {Num(0), Str(""), Bool(FALSE), Obj("{}")}}
    /\ JsonWritten(lastCall.res)
    /\ EnvelopeOn(lastCall.res)["data"] = LastOptions["data"]
    /\ DOMAIN EnvelopeOn(lastCall.res) = {"status", "message", "data", "timestamp"}

\* The header entries the options of the last call carry.
LastHeaders ==
    IF Supplied(LastOptions, "headers") /\ LastOptions["headers"][1] = "record"
    THEN LastOptions["headers"][2] ELSE <<>>

\* C4: a call that reaches send with a headers mapping sets every pair of
\* it on the sink, in order, before the status and JSON body are written,
\* and sets no header after the body.
C4_HeadersBeforeBody ==
    SendReached =>
        LET hs == LastHeaders
            n == Len(hs)
            tr == lastCall.trace
        IN /\ Len(tr) = n + 2
           /\ \A i \in 1..n : tr[i].op = "setHeader" /\ tr[i].args = hs[i] /\ ~tr[i].threw
           /\ tr[n + 1].op = "status"
           /\ tr[n + 2].op = "json" /\ ~tr[n + 2].threw

C4_Witness ==
    /\ SendReached /\ Len(LastHeaders) = 2
    /\ lastCall.trace[1].op = "setHeader" /\ lastCall.trace[2].op = "setHeader"
    /\ lastCall.trace[4].op = "json"
    /\ JsonWritten(lastCall.res)

\* C5: noContent writes status 204 and an empty body whatever it is passed;
\* it builds no envelope, writes no JSON and sets no header.
C5_NoContent ==
    (OnInstance /\ lastCall.name = "noContent") =>
        /\ ~lastCall.threw
        /\ LastSink.statusCode = Num(204)
        /\ LastSink.body = <<"empty">>
        /\ LastSink.headers = FreshSink.headers
        /\ lastCall.built = <<>>
        /\ Len(lastCall.trace) = 2
        /\ lastCall.trace[1].op = "status" /\ lastCall.trace[1].args = <<Num(204)>>
        /\ lastCall.trace[2].op = "send" /\ lastCall.trace[2].args = <<>>

C5_Witness ==
    /\ OnInstance /\ lastCall.name = "noContent" /\ lastCall.arg = Bag(FullBag)
    /\ LastSink.body = <<"empty">>
    /\ LastSink.statusCode = Num(204)

\* The middleware has run on response r.
MiddlewareRan(r) == HelpersOn(r) # {}

\* C6: for every request the middleware calls the continuation exactly
\* once, with no arguments and with all helpers attached, and a middleware
\* run writes nothing to any sink.
C6_NextOnceNoWrite ==
    /\ [](\A r \in Requests :
            /\ Len(nextCalls[r]) = IF MiddlewareRan(r) THEN 1 ELSE 0
            /\ \A i \in DOMAIN nextCalls[r] :
                  nextCalls[r][i].args = <<>> /\ Helpers \subseteq nextCalls[r][i].attached)
    /\ [][nextCalls' # nextCalls => sink' = sink]_vars

C6_Witness ==
    /\ Len(nextCalls[1]) = 1 /\ attached[1]["success"].kind = "closure"
    /\ Len(nextCalls[2]) = 1 /\ attached[2]["success"].kind = "method"
    /\ sink[1] = FreshSink

\* What the method lastCall.name of an HttpResponse constructed over the
\* response does, called with the same argument at the same instant on the
\* same sinks.
AsMethod ==
    Invoke(lastCall.name, Instance(<<lastCall.res, "middleware">>), lastCall.arg,
           Context(lastCall.before, lastCall.now, "express5"))

\* C7: once the middleware has run on a response all 18 helpers are on it
\* under their names, and res.X(options) does to the sink what the method X
\* of an HttpResponse over that response does.
C7_AttachedAsMethod ==
    /\ \A r \in Requests : MiddlewareRan(r) => HelpersOn(r) = Helpers
    /\ lastCall.via = "res" =>
          /\ sink = AsMethod.sink
          /\ lastCall.threw = AsMethod.threw
          /\ lastCall.trace = AsMethod.trace

\* C8: with requests interleaved, a helper attached to one response sets
\* headers on and writes to the sink of that response only, every
\* HttpResponse writes to the response it was constructed over, and no
\* helper and no HttpResponse is on the responses of two requests.
C8_IsolatedUnshared ==
    /\ \A r \in Requests : r # lastCall.res => sink[r] = lastCall.before[r]
    /\ \A i \in DOMAIN lastCall.trace : lastCall.trace[i].on = lastCall.res
    /\ \A f \in DOMAIN httpResponse : httpResponse[f].res = f[1]
    /\ \A a, b \in Requests :
          a # b => \A n \in HelpersOn(a), m \in HelpersOn(b) :
                      /\ attached[a][n] # attached[b][m]
                      /\ attached[a][n].self # attached[b][m].self

\* C9: an invocation of send or of a named helper other than noContent
\* builds exactly one envelope and writes status and JSON body exactly once.
C9_OneEnvelopeOneWrite ==
    SendReached =>
        /\ Len(lastCall.built) = 1
        /\ Cardinality({i \in DOMAIN lastCall.trace : lastCall.trace[i].op = "json"}) = 1
        /\ Cardinality({i \in DOMAIN lastCall.trace : lastCall.trace[i].op = "status"}) = 1
        /\ \A i \in DOMAIN lastCall.trace : ~lastCall.trace[i].threw
        /\ LastSink.body = <<"json", lastCall.built[1]>>

C9_Witness ==
    /\ SendReached /\ lastCall.name = "badRequest" /\ lastCall.via = "res"
    /\ Len(lastCall.built) = 1
    /\ LastSink.body = <<"json", lastCall.built[1]>>

\* C10: every envelope on a sink has status success or error, a message
\* and a timestamp, and no field besides status, message, data, errors,
\* meta and timestamp.
C10_EnvelopeShape ==
    \A r \in Requests :
        JsonWritten(r) =>
            /\ {"status", "message", "timestamp"} \subseteq DOMAIN EnvelopeOn(r)
            /\ DOMAIN EnvelopeOn(r) \subseteq EnvelopeFields
            /\ EnvelopeOn(r)["status"] \in {Str("success"), Str("error")}
            /\ EnvelopeOn(r)["message"] # Undefined
            /\ EnvelopeOn(r)["timestamp"] \in {Str(toISOString(ms)) : ms \in 0..MaxClock}

C10_Witness ==
    /\ JsonWritten(1) /\ lastCall.name = "send" /\ lastCall.arg = Bag(FullBag)
    /\ DOMAIN EnvelopeOn(1) = EnvelopeFields

FinishedCall == OnInstance /\ lastCall.before[lastCall.res].headersSent

\* The sink's error left the call as it was raised: the sink call that
\* threw is the last one the call made, and no body write was tried twice.
Propagated ==
    LET tr == lastCall.trace
    IN /\ lastCall.threw
       /\ tr # <<>>
       /\ \A i \in DOMAIN tr : tr[i].threw <=> i = Len(tr)
       /\ Cardinality({i \in DOMAIN tr : tr[i].op \in {"json", "send"}}) <= 1

\* C12 as stated: a helper called on a response already sent lets the
\* sink's error out, without a catch or a retry, and the status code and
\* the body recorded on the response stay as they were.
C12_FinishedSinkUnchanged ==
    FinishedCall =>
        /\ Propagated
        /\ LastSink.statusCode = lastCall.before[lastCall.res].statusCode
        /\ LastSink.body = lastCall.before[lastCall.res].body

\* C12, amended: a helper called on a response already sent lets the sink's
\* error out, without a catch or a retry, and the body, the headers and the
\* sent flag stay as they were; the response's statusCode stays when the
\* call fails at its first header, and is the failed call's status code
\* when the call carries no header, since status() runs before json() throws.
C12_FinishedSinkBodyUnchanged ==
    FinishedCall =>
        LET was == lastCall.before[lastCall.res]
            tr == lastCall.trace
        IN /\ Propagated
           /\ LastSink.body = was.body
           /\ LastSink.headers = was.headers
           /\ LastSink.headersSent
           /\ \A r \in Requests \ {lastCall.res} : sink[r] = lastCall.before[r]
           /\ LastSink.statusCode =
                 IF tr[1].op = "status" THEN tr[1].args[1] ELSE was.statusCode
           /\ tr[1].op = "status" <=> LastHeaders = <<>>

C12_Witness ==
    /\ FinishedCall
    /\ lastCall.name = "notFound"
    /\ lastCall.threw
    /\ lastCall.before[lastCall.res].statusCode = Num(200)
    /\ LastSink.statusCode = Num(404)
    /\ JsonWritten(lastCall.res)
    /\ EnvelopeOn(lastCall.res)["status"] = Str("success")

\* C13: whether or not the middleware has run for a response, send,
\* status, json and setHeader of the response are Express' own; what the
\* middleware adds is the eighteen helpers and nothing else, and send of
\* HttpResponse is not among them.
C13_NativeMembersKept ==
    /\ Cardinality(Helpers) = 18
    /\ "send" \notin Helpers
    /\ \A r \in Requests :
          /\ \A n \in NativeMembers : n \in DOMAIN attached[r] /\ attached[r][n] = Native[n]
          /\ DOMAIN attached[r] \ NativeMembers \in {{}, Helpers}
          /\ \A n \in DOMAIN attached[r] \ NativeMembers :
                attached[r][n].kind # "native" /\ attached[r][n].method = n

C13_Witness ==
    /\ MiddlewareRan(1) /\ MiddlewareRan(2)
    /\ attached[1]["success"].kind = "closure"
    /\ attached[2]["success"].kind = "method"
    /\ attached[1]["send"] = Native["send"]
    /\ attached[2]["send"] = Native["send"]
    /\ sink[1].body[1] = "json"

\* C14: send called directly with a category and an options bag writes the
\* supplied statusCode with no check against the category, otherwise 200
\* for success and 500 for error; the message is the supplied one,
\* otherwise 'Success' or 'Error'; the envelope's status is the category.
C14_DirectSend ==
    (OnInstance /\ lastCall.name = "send") =>
        LET o == LastOptions
            ok == lastCall.category = Str("success")
            env == EnvelopeOn(lastCall.res)
        IN /\ ~lastCall.threw
           /\ JsonWritten(lastCall.res)
           /\ env["status"] = lastCall.category
           /\ LastSink.statusCode =
                 IF Supplied(o, "statusCode") THEN o["statusCode"]
                 ELSE IF ok THEN Num(200) ELSE Num(500)
           /\ env["message"] =
                 IF Supplied(o, "message") THEN o["message"]
                 ELSE IF ok THEN Str("Success") ELSE Str("Error")

C14_Witness ==
    /\ OnInstance /\ lastCall.name = "send"
    /\ lastCall.category = Str("success")
    /\ lastCall.arg = Bag([statusCode |-> Num(404)])
    /\ LastSink.statusCode = Num(404)
    /\ EnvelopeOn(lastCall.res)["status"] = Str("success")
    /\ EnvelopeOn(lastCall.res)["message"] = Str("Success")

\* Date.parse of an ISO-8601 string: the instant it stands for.
ParseISO(s) == CHOOSE ms \in 0..MaxClock : Str(toISOString(ms)) = s

TimestampOn(r) == ParseISO(EnvelopeOn(r)["timestamp"])

\* C15: the timestamp of an envelope is the instant the clock showed during
\* the call that wrote it, never one later than the present, and the
\* envelope written last carries a timestamp no earlier than any envelope
\* written before it.
C15_TimestampOfTheCall ==
    /\ \A r \in Requests :
          JsonWritten(r) =>
             /\ firstCall[r].found = FreshSink
             /\ TimestampOn(r) = firstCall[r].now
             /\ TimestampOn(r) <= clock
    /\ (OnInstance /\ ~lastCall.threw /\ JsonWritten(lastCall.res)) =>
          /\ TimestampOn(lastCall.res) = lastCall.now
          /\ lastCall.built = <<EnvelopeOn(lastCall.res)>>
          /\ \A r \in Requests : JsonWritten(r) => TimestampOn(r) <= TimestampOn(lastCall.res)

C15_Witness ==
    /\ JsonWritten(1) /\ JsonWritten(2)
    /\ lastCall.res = 2
    /\ TimestampOn(1) = 0
    /\ TimestampOn(2) = MaxClock
    /\ clock = MaxClock

\* Two responses whose first calls ran the same method of the class on an
\* HttpResponse instance with the same argument at the same instant, each on
\* a fresh sink.
SameCall(a, b) ==
    /\ firstCall[a] # NoCall /\ firstCall[b] # NoCall
    /\ firstCall[a].on[1] = "HttpResponse" /\ firstCall[b].on[1] = "HttpResponse"
    /\ firstCall[a].name = firstCall[b].name
    /\ firstCall[a].category = firstCall[b].category
    /\ firstCall[a].arg = firstCall[b].arg
    /\ firstCall[a].now = firstCall[b].now
    /\ firstCall[a].found = FreshSink /\ firstCall[b].found = FreshSink

\* C16: two calls of the same helper with the same options at the same
\* clock value, each on a fresh sink, leave the same status code, headers
\* and envelope, whatever calls were made before either of them; and an
\* HttpResponse instance holds its response and nothing else, unchanged.
C16_Stateless ==
    /\ \A f \in DOMAIN httpResponse : httpResponse[f] = HttpResponse(f[1])
    /\ \A a, b \in Requests :
          SameCall(a, b) =>
             /\ firstCall[a].left = firstCall[b].left
             /\ firstCall[a].threw = firstCall[b].threw

\* Response 1 was answered, then called again with another helper, and only
\* then response 2 got the call response 1 got first.
C16_Witness ==
    /\ SameCall(1, 2)
    /\ firstCall[1].name = "success" /\ firstCall[1].arg = Undefined
    /\ lastCall.res = 2
    /\ lastCall.before[1].statusCode = Num(404)
    /\ firstCall[1].left.statusCode = Num(200)
    /\ firstCall[2].left.statusCode = Num(200)

\* The caller's bag has key k, and its value is undefined.
ExplicitUndefined(o, k) == k \in DOMAIN o /\ o[k] = Undefined

\* C17: a named helper given a bag whose message (statusCode) key is
\* present with the value undefined writes the default of its category,
\* 'Success' or 'Error' (200 or 500), not the helper's preset.
C17_ExplicitUndefinedLosesPreset ==
    HelperCalled =>
        LET o == LastOptions
            ok == DocumentedPreset(lastCall.name).category = "success"
        IN /\ ExplicitUndefined(o, "message") =>
                 /\ JsonWritten(lastCall.res)
                 /\ EnvelopeOn(lastCall.res)["message"] = IF ok THEN Str("Success") ELSE Str("Error")
           /\ ExplicitUndefined(o, "statusCode") =>
                 /\ JsonWritten(lastCall.res)
                 /\ LastSink.statusCode = IF ok THEN Num(200) ELSE Num(500)

C17_Witness ==
    /\ HelperCalled /\ lastCall.name = "notFound"
    /\ lastCall.arg = Bag([statusCode |-> Undefined])
    /\ LastSink.statusCode = Num(500)
    /\ EnvelopeOn(lastCall.res)["message"] = Str("Not Found")

\* C18: in a call that reaches send, data, errors or meta supplied as null
\* is in the envelope with the value null; a key that is missing or
\* undefined is the only one left out.
C18_NullIsSupplied ==
    SendReached =>
        /\ JsonWritten(lastCall.res)
        /\ \A k \in OptionalFields :
              /\ (k \in DOMAIN LastOptions /\ LastOptions[k] = Null) =>
                    k \in DOMAIN EnvelopeOn(lastCall.res) /\ EnvelopeOn(lastCall.res)[k] = Null
              /\ k \notin DOMAIN EnvelopeOn(lastCall.res) =>
                    (k \notin DOMAIN LastOptions \/ LastOptions[k] = Undefined)

C18_Witness ==
    /\ SendReached /\ lastCall.name = "badRequest"
    /\ lastCall.arg = Bag([errors |-> Null])
    /\ DOMAIN EnvelopeOn(lastCall.res) = {"status", "message", "errors", "timestamp"}
    /\ EnvelopeOn(lastCall.res)["errors"] = Null

====
